---- MODULE Spec2Model ----
(***************************************************************************)
(* Model of toot/asynch/entities.py: the dataclass schemas of the          *)
(* Mastodon entities and the generic converter from_dict / convert /       *)
(* prune_optional that builds them from decoded JSON.                      *)
(*                                                                         *)
(* Python values are tagged records:                                       *)
(*   None            [k |-> "null"]                                        *)
(*   str             [k |-> "str",  s |-> "..."]                           *)
(*   int             [k |-> "int",  n |-> 42]                              *)
(*   bool            [k |-> "bool", b |-> TRUE]                            *)
(*   list            [k |-> "list", items |-> << ... >>]                   *)
(*   dict            [k |-> "map",  keys |-> << ... >>, m |-> [key |-> v]] *)
(*                   (keys is the insertion order, which iteration uses)   *)
(*   datetime, date  [k |-> "datetime", ...], [k |-> "date", ...]          *)
(*   dataclass inst. [k |-> "obj", cls |-> name, fields |-> [name |-> v]]  *)
(* A call's outcome is [ok |-> TRUE, val |-> v] or [ok |-> FALSE,          *)
(* err |-> e]; both carry depth, the largest number of from_dict           *)
(* activations that were on the call stack at once during the call.        *)
(***************************************************************************)
EXTENDS Integers, Sequences, FiniteSets, TLC

VARIABLES pc, cls, raw, via, result

vars == <<pc, cls, raw, via, result>>

(***************************************************************************)
(* Values                                                                  *)
(***************************************************************************)
None == [k |-> "null"]

Str(s) == [k |-> "str", s |-> s]

Num(n) == [k |-> "int", n |-> n]

Bool(b) == [k |-> "bool", b |-> b]

List(items) == [k |-> "list", items |-> items]

EmptyDict == [k |-> "map", keys |-> <<>>, m |-> <<>>]

Dict1(key, v) == [k |-> "map", keys |-> <<key>>, m |-> [x \in {key} |-> v]]

MISSING == [k |-> "MISSING"]

Ok(v, d) == [ok |-> TRUE, val |-> v, depth |-> d]

Raise(exc, why, arg, d) ==
    [ok |-> FALSE, err |-> [exc |-> exc, why |-> why, arg |-> arg], depth |-> d]

(***************************************************************************)
(* Declared types (what typing.get_type_hints returns for a field)         *)
(***************************************************************************)
Atom(t) == [t |-> t, n |-> "", args |-> <<>>]

str == Atom("str")

int == Atom("int")

bool == Atom("bool")

dict == Atom("dict")

float == Atom("float")

datetime == Atom("datetime")

date == Atom("date")

NoneType == Atom("NoneType")

ListOf(T) == [t |-> "list", n |-> "", args |-> <<T>>]

Union(args) == [t |-> "Union", n |-> "", args |-> args]

Optional(T) == Union(<<T, NoneType>>)

Class(name) == [t |-> "class", n |-> name, args |-> <<>>]

get_origin(field_type) ==
    IF field_type.t \in {"list", "Union"} THEN field_type.t ELSE "None"

get_args(field_type) == field_type.args

is_dataclass(field_type) == field_type.t = "class"

F(name, type) == [name |-> name, type |-> type, default |-> MISSING]

FD(name, type, default) == [name |-> name, type |-> type, default |-> default]

(***************************************************************************)
(* The dataclasses, as dataclasses.fields(cls) and get_type_hints(cls) see *)
(* them: the fields in declaration order, each with its resolved type and  *)
(* its default (MISSING when none is declared).                            *)
(***************************************************************************)
AccountField ==
    << F("name", str), F("value", str), F("verified_at", Optional(datetime)) >>

CustomEmoji ==
    << F("shortcode", str), F("url", str), F("static_url", str),
       F("visible_in_picker", bool), F("category", str) >>

Account ==
    << F("id", str), F("username", str), F("acct", str), F("url", str),
       F("display_name", str), F("note", str), F("avatar", str),
       F("avatar_static", str), F("header", str), F("header_static", str),
       F("locked", bool), F("fields", ListOf(Class("AccountField"))),
       F("emojis", ListOf(Class("CustomEmoji"))), F("bot", bool), F("group", bool),
       F("discoverable", Optional(bool)), F("noindex", Optional(bool)),
       F("moved", Optional(Class("Account"))), F("suspended", Optional(bool)),
       F("limited", Optional(bool)), F("created_at", datetime),
       F("last_status_at", Optional(date)), F("statuses_count", int),
       F("followers_count", int), F("following_count", int) >>

Application == << F("name", str), F("website", str) >>

MediaAttachment ==
    << F("id", str), F("type", str), F("url", str), F("preview_url", str),
       F("remote_url", Optional(str)), F("meta", dict), F("description", str),
       F("blurhash", str) >>

StatusMention == << F("id", str), F("username", str), F("url", str), F("acct", str) >>

StatusTag == << F("name", str), F("url", str) >>

PollOption == << F("title", str), F("votes_count", Optional(int)) >>

Poll ==
    << F("id", str), F("expires_at", Optional(datetime)), F("expired", bool),
       F("multiple", bool), F("votes_count", int), F("voters_count", Optional(int)),
       F("options", ListOf(Class("PollOption"))),
       F("emojis", ListOf(Class("CustomEmoji"))), F("voted", Optional(bool)),
       F("own_votes", Optional(ListOf(int))) >>

PreviewCard ==
    << F("url", str), F("title", str), F("description", str), F("type", str),
       F("author_name", str), F("author_url", str), F("provider_name", str),
       F("provider_url", str), F("html", str), F("width", int), F("height", int),
       F("image", Optional(str)), F("embed_url", str), F("blurhash", Optional(str)) >>

FilterKeyword == << F("id", str), F("keyword", str), F("whole_word", str) >>

FilterStatus == << F("id", str), F("status_id", str) >>

Filter ==
    << F("id", str), F("title", str), F("context", ListOf(str)),
       F("expires_at", Optional(datetime)), F("filter_action", str),
       F("keywords", ListOf(Class("FilterKeyword"))),
       F("statuses", ListOf(Class("FilterStatus"))) >>

FilterResult ==
    << F("filter", Class("Filter")), F("keyword_matches", Optional(ListOf(str))),
       F("status_matches", Optional(str)) >>

Status ==
    << F("id", str), F("uri", str), F("created_at", datetime),
       F("account", Class("Account")), F("content", str), F("visibility", str),
       F("sensitive", bool), F("spoiler_text", str),
       F("media_attachments", ListOf(Class("MediaAttachment"))),
       F("application", Optional(Class("Application"))),
       F("mentions", ListOf(Class("StatusMention"))),
       F("tags", ListOf(Class("StatusTag"))), F("emojis", ListOf(Class("CustomEmoji"))),
       F("reblogs_count", int), F("favourites_count", int), F("replies_count", int),
       F("url", Optional(str)), F("in_reply_to_id", Optional(str)),
       F("in_reply_to_account_id", Optional(str)), F("reblog", Optional(Class("Status"))),
       F("poll", Optional(Class("Poll"))), F("card", Optional(Class("PreviewCard"))),
       F("language", Optional(str)), F("text", Optional(str)),
       F("edited_at", Optional(datetime)), F("filtered", ListOf(Class("FilterResult"))),
       FD("favourited", bool, Bool(FALSE)), FD("reblogged", bool, Bool(FALSE)),
       FD("muted", bool, Bool(FALSE)), FD("bookmarked", bool, Bool(FALSE)),
       FD("pinned", bool, Bool(FALSE)) >>

InstanceV2 ==
    << F("domain", str), F("title", str), F("version", str), F("source_url", str),
       F("description", str), F("usage", dict), F("thumbnail", dict),
       F("languages", ListOf(str)), F("configuration", dict), F("registrations", dict),
       F("contact", dict), F("rules", ListOf(dict)) >>

(***************************************************************************)
(* Dataclasses that are not in the module but that a caller can hand to    *)
(* from_dict: fields whose declared type convert() has no branch for.      *)
(* Union(<<str, int, NoneType>>) is Optional[Union[str, int]];             *)
(* Union(<<NoneType, str>>) is Union[None, str].                           *)
(***************************************************************************)
Probe ==
    << F("created_at", datetime), F("ratio", float),
       F("either", Union(<<str, int, NoneType>>)),
       F("maybe", Union(<<NoneType, str>>)), F("ratios", ListOf(float)) >>

ProbeDefault == << F("id", str), FD("score", float, Num(0)) >>

ModuleClasses ==
    { "AccountField", "CustomEmoji", "Account", "Application", "MediaAttachment",
      "StatusMention", "StatusTag", "PollOption", "Poll", "PreviewCard",
      "FilterKeyword", "FilterStatus", "Filter", "FilterResult", "Status",
      "InstanceV2" }

ProbeClasses == { "Probe", "ProbeDefault" }

\* dataclasses.fields(cls), with each field's type as get_type_hints(cls) resolves it
fields(c) ==
    CASE c.n = "AccountField" -> AccountField
      [] c.n = "CustomEmoji" -> CustomEmoji
      [] c.n = "Account" -> Account
      [] c.n = "Application" -> Application
      [] c.n = "MediaAttachment" -> MediaAttachment
      [] c.n = "StatusMention" -> StatusMention
      [] c.n = "StatusTag" -> StatusTag
      [] c.n = "PollOption" -> PollOption
      [] c.n = "Poll" -> Poll
      [] c.n = "PreviewCard" -> PreviewCard
      [] c.n = "FilterKeyword" -> FilterKeyword
      [] c.n = "FilterStatus" -> FilterStatus
      [] c.n = "Filter" -> Filter
      [] c.n = "FilterResult" -> FilterResult
      [] c.n = "Status" -> Status
      [] c.n = "InstanceV2" -> InstanceV2
      [] c.n = "Probe" -> Probe
      [] c.n = "ProbeDefault" -> ProbeDefault

(***************************************************************************)
(* datetime.strptime(value, "%Y-%m-%dT%H:%M:%S.%f%z") and                  *)
(* date.fromisoformat(value), on zero-padded fixed-width text:             *)
(* YYYY-MM-DDTHH:MM:SS.ffffff+HH:MM and YYYY-MM-DD.  Text of any other     *)
(* length or layout is rejected; the strings this model feeds in are       *)
(* either of exactly these layouts or rejected by Python as well.          *)
(***************************************************************************)
Digits == {"0", "1", "2", "3", "4", "5", "6", "7", "8", "9"}

DigitVal(c) ==
    CASE c = "0" -> 0 [] c = "1" -> 1 [] c = "2" -> 2 [] c = "3" -> 3 [] c = "4" -> 4
      [] c = "5" -> 5 [] c = "6" -> 6 [] c = "7" -> 7 [] c = "8" -> 8 [] c = "9" -> 9

Char(s, i) == SubSeq(s, i, i)

AllDigits(s, from, to) == \A i \in from..to : Char(s, i) \in Digits

RECURSIVE ToInt(_, _, _)
ToInt(s, from, to) ==
    IF to < from THEN 0 ELSE 10 * ToInt(s, from, to - 1) + DigitVal(Char(s, to))

IsLeap(y) == (y % 4 = 0 /\ y % 100 # 0) \/ y % 400 = 0

DaysInMonth(y, m) ==
    IF m = 2 THEN (IF IsLeap(y) THEN 29 ELSE 28)
    ELSE IF m \in {4, 6, 9, 11} THEN 30 ELSE 31

IsDateText(s, at) ==
    /\ AllDigits(s, at, at + 3) /\ Char(s, at + 4) = "-"
    /\ AllDigits(s, at + 5, at + 6) /\ Char(s, at + 7) = "-"
    /\ AllDigits(s, at + 8, at + 9)
    /\ ToInt(s, at, at + 3) >= 1
    /\ ToInt(s, at + 5, at + 6) \in 1..12
    /\ ToInt(s, at + 8, at + 9) \in 1..DaysInMonth(ToInt(s, at, at + 3), ToInt(s, at + 5, at + 6))

IsDateTimeText(s) ==
    /\ Len(s) = 32
    /\ IsDateText(s, 1) /\ Char(s, 11) = "T"
    /\ AllDigits(s, 12, 13) /\ Char(s, 14) = ":" /\ AllDigits(s, 15, 16)
    /\ Char(s, 17) = ":" /\ AllDigits(s, 18, 19) /\ Char(s, 20) = "."
    /\ AllDigits(s, 21, 26) /\ Char(s, 27) \in {"+", "-"}
    /\ AllDigits(s, 28, 29) /\ Char(s, 30) = ":" /\ AllDigits(s, 31, 32)
    /\ ToInt(s, 12, 13) <= 23 /\ ToInt(s, 15, 16) <= 59 /\ ToInt(s, 18, 19) <= 59
    /\ ToInt(s, 31, 32) <= 59

strptime(value) ==
    IF value.k # "str" THEN Raise("TypeError", "strptime() argument 1 must be str", value.k, 0)
    ELSE IF ~IsDateTimeText(value.s)
    THEN Raise("ValueError", "time data does not match format", value.s, 0)
    ELSE Ok([k |-> "datetime",
             year |-> ToInt(value.s, 1, 4), month |-> ToInt(value.s, 6, 7),
             day |-> ToInt(value.s, 9, 10), hour |-> ToInt(value.s, 12, 13),
             minute |-> ToInt(value.s, 15, 16), second |-> ToInt(value.s, 18, 19),
             microsecond |-> ToInt(value.s, 21, 26),
             utcoffset |-> (IF Char(value.s, 27) = "-" THEN -1 ELSE 1)
                           * (60 * ToInt(value.s, 28, 29) + ToInt(value.s, 31, 32))], 0)

fromisoformat(value) ==
    IF value.k # "str" THEN Raise("TypeError", "fromisoformat: argument must be str", value.k, 0)
    ELSE IF ~(Len(value.s) = 10 /\ IsDateText(value.s, 1))
    THEN Raise("ValueError", "Invalid isoformat string", value.s, 0)
    ELSE Ok([k |-> "date", year |-> ToInt(value.s, 1, 4), month |-> ToInt(value.s, 6, 7),
             day |-> ToInt(value.s, 9, 10)], 0)

(***************************************************************************)
(* The converter                                                           *)
(***************************************************************************)
RECURSIVE TypeRepr(_), JoinReprs(_, _)
\* how typing prints a type inside a generic alias
TypeRepr(field_type) ==
    CASE field_type.t = "class" -> "toot.asynch.entities." \o field_type.n
      [] field_type.t = "list" -> "typing.List[" \o TypeRepr(field_type.args[1]) \o "]"
      [] field_type.t = "Union" /\ Len(field_type.args) = 2 /\ field_type.args[2] = NoneType ->
            "typing.Optional[" \o TypeRepr(field_type.args[1]) \o "]"
      [] field_type.t = "Union" /\ Len(field_type.args) = 2 /\ field_type.args[1] = NoneType ->
            "typing.Optional[" \o TypeRepr(field_type.args[2]) \o "]"
      [] field_type.t = "Union" -> "typing.Union[" \o JoinReprs(field_type.args, 1) \o "]"
      [] OTHER -> field_type.t

JoinReprs(args, i) ==
    IF i > Len(args) THEN ""
    ELSE TypeRepr(args[i]) \o (IF i < Len(args) THEN ", " ELSE "") \o JoinReprs(args, i + 1)

\* the text of a type inside the f-string of the ValueError
TypeName(field_type) ==
    IF field_type.t \in {"list", "Union"} THEN TypeRepr(field_type)
    ELSE "<class '" \o TypeRepr(field_type) \o "'>"

\* For Optional[<type>] returns the encapsulated <type>.
prune_optional(field_type) ==
    IF get_origin(field_type) = "Union"
         /\ Len(get_args(field_type)) = 2
         /\ get_args(field_type)[2] = NoneType
    THEN get_args(field_type)[1]
    ELSE field_type

\* get as "data.get(name) or default": a falsy value is taken for a missing key
get_or_default(data, name, default) ==
    IF data.k # "map"
    THEN Raise("AttributeError", "object has no attribute 'get'", data.k, 0)
    ELSE Ok(IF name \in DOMAIN data.m
                 /\ data.m[name] \notin {None, EmptyDict, List(<<>>), Bool(FALSE), Num(0), Str("")}
            THEN data.m[name] ELSE default, 0)

\* data.get(name, default): only a dict has the method
get(data, name, default) ==
    IF data.k # "map"
    THEN Raise("AttributeError", "object has no attribute 'get'", data.k, 0)
    ELSE Ok(IF name \in DOMAIN data.m THEN data.m[name] ELSE default, 0)

\* iter(value) for the "for x in value" of the list comprehension
iter(value) ==
    CASE value.k = "list" -> Ok(value.items, 0)
      [] value.k = "str" -> Ok([i \in 1..Len(value.s) |-> Str(Char(value.s, i))], 0)
      [] value.k = "map" -> Ok([i \in 1..Len(value.keys) |-> Str(value.keys[i])], 0)
      [] OTHER -> Raise("TypeError", "object is not iterable", value.k, 0)

\* Construct with the values handed over in the wrong order (last field first)
Construct_reversed(c, args) ==
    [k |-> "obj", cls |-> c.n,
     fields |-> [name \in {fields(c)[i].name : i \in 1..Len(fields(c))} |->
                    args[Len(args) + 1
                           - (CHOOSE i \in 1..Len(fields(c)) : fields(c)[i].name = name)]]]

\* cls(*args): the dataclass constructor, positional
Construct(c, args) ==
    [k |-> "obj", cls |-> c.n,
     fields |-> [name \in {fields(c)[i].name : i \in 1..Len(fields(c))} |->
                    args[CHOOSE i \in 1..Len(fields(c)) : fields(c)[i].name = name]]]

MaxOf(S) == IF S = {} THEN 0 ELSE CHOOSE x \in S : \A y \in S : y <= x

\* RunInOrder with a raise swallowed: the step that raised gives None
RunInOrder_swallow(r) ==
    Ok([i \in 1..Len(r) |-> IF r[i].ok THEN r[i].val ELSE None],
       MaxOf({r[i].depth : i \in 1..Len(r)}))

(***************************************************************************)
(* Running a generator or a comprehension whose i-th step has the outcome  *)
(* r[i]: the steps run in order, the first one that raises ends the run    *)
(* with its exception, and the steps after it never run.  Without a raise  *)
(* the run gives the values in order.  (The steps are pure, so the         *)
(* outcomes of steps that never run are simply not looked at.)             *)
(***************************************************************************)
RunInOrder(r) ==
    LET raised == {i \in 1..Len(r) : ~r[i].ok}
        stop == IF raised = {} THEN 0 ELSE CHOOSE i \in raised : \A j \in raised : i <= j
        ran == IF stop = 0 THEN 1..Len(r) ELSE 1..stop
        d == MaxOf({r[i].depth : i \in ran})
    IN IF stop = 0 THEN Ok([i \in 1..Len(r) |-> r[i].val], d)
       ELSE [r[stop] EXCEPT !.depth = d]

RECURSIVE convert(_, _), from_dict(_, _)

\* convert with the None test only in the primitive branch
convert_late_none(field_type, value) ==
    IF field_type \in {str, int, bool, dict} THEN Ok(value, 0)
    ELSE IF field_type = datetime THEN strptime(value)
    ELSE IF field_type = date THEN fromisoformat(value)
    ELSE IF get_origin(field_type) = "list"
    THEN LET inner_type == get_args(field_type)[1]
             xs == iter(value)
         IN IF ~xs.ok THEN xs
            ELSE LET out == RunInOrder([i \in 1..Len(xs.val) |-> convert(inner_type, xs.val[i])])
                 IN IF out.ok THEN Ok(List(out.val), out.depth) ELSE out
    ELSE IF is_dataclass(field_type) THEN from_dict(field_type, value)
    ELSE Raise("ValueError", "Not implemented for type", TypeName(field_type), 0)

\* convert whose list branch drops the elements that convert to None
convert_drop_none(field_type, value) ==
    IF value = None THEN Ok(None, 0)
    ELSE IF field_type \in {str, int, bool, dict} THEN Ok(value, 0)
    ELSE IF field_type = datetime THEN strptime(value)
    ELSE IF field_type = date THEN fromisoformat(value)
    ELSE IF get_origin(field_type) = "list"
    THEN LET inner_type == get_args(field_type)[1]
             xs == iter(value)
         IN IF ~xs.ok THEN xs
            ELSE LET out == RunInOrder([i \in 1..Len(xs.val) |-> convert(inner_type, xs.val[i])])
                 IN IF out.ok THEN Ok(List(SelectSeq(out.val, LAMBDA x : x # None)), out.depth)
                    ELSE out
    ELSE IF is_dataclass(field_type) THEN from_dict(field_type, value)
    ELSE Raise("ValueError", "Not implemented for type", TypeName(field_type), 0)

\* convert whose last branch hands the value through instead of raising
convert_fallthrough(field_type, value) ==
    IF value = None THEN Ok(None, 0)
    ELSE IF field_type \in {str, int, bool, dict} THEN Ok(value, 0)
    ELSE IF field_type = datetime THEN strptime(value)
    ELSE IF field_type = date THEN fromisoformat(value)
    ELSE IF get_origin(field_type) = "list"
    THEN LET inner_type == get_args(field_type)[1]
             xs == iter(value)
         IN IF ~xs.ok THEN xs
            ELSE LET out == RunInOrder([i \in 1..Len(xs.val) |-> convert(inner_type, xs.val[i])])
                 IN IF out.ok THEN Ok(List(out.val), out.depth) ELSE out
    ELSE IF is_dataclass(field_type) THEN from_dict(field_type, value)
    ELSE Ok(value, 0)

convert(field_type, value) ==
    IF value = None THEN Ok(None, 0)
    ELSE IF field_type \in {str, int, bool, dict} THEN Ok(value, 0)
    ELSE IF field_type = datetime THEN strptime(value)
    ELSE IF field_type = date THEN fromisoformat(value)
    ELSE IF get_origin(field_type) = "list"
    THEN LET inner_type == get_args(field_type)[1]
             xs == iter(value)
         IN IF ~xs.ok THEN xs
            ELSE LET out == RunInOrder([i \in 1..Len(xs.val) |-> convert(inner_type, xs.val[i])])
                 IN IF out.ok THEN Ok(List(out.val), out.depth) ELSE out
    ELSE IF is_dataclass(field_type) THEN from_dict(field_type, value)
    ELSE Raise("ValueError", "Not implemented for type", TypeName(field_type), 0)

\* field_value that raises when a key is missing and the field has no default
field_value_required(field, data) ==
    LET default == IF field.default # MISSING THEN field.default ELSE None
        field_type == prune_optional(field.type)
        value == get(data, field.name, default)
    IN IF ~value.ok THEN value
       ELSE IF field.default = MISSING /\ field.name \notin DOMAIN data.m
       THEN Raise("KeyError", "missing key", field.name, 0)
       ELSE convert(field_type, value.val)

\* field_value that builds a missing, non-Optional nested record from {}
field_value_empty_record(field, data) ==
    LET field_type == prune_optional(field.type)
        default == IF field.default # MISSING THEN field.default
                   ELSE IF is_dataclass(field.type) THEN EmptyDict ELSE None
        value == get(data, field.name, default)
    IN IF ~value.ok THEN value ELSE convert(field_type, value.val)

\* what the generator _fields() of from_dict yields for a field
field_value(field, data) ==
    LET default == IF field.default # MISSING THEN field.default ELSE None
        field_type == prune_optional(field.type)
        value == get(data, field.name, default)
    IN IF ~value.ok THEN value ELSE convert(field_type, value.val)

from_dict(c, data) ==
    LET args == RunInOrder([i \in 1..Len(fields(c)) |-> field_value(fields(c)[i], data)])
    IN IF args.ok THEN Ok(Construct(c, args.val), 1 + args.depth)
       ELSE [args EXCEPT !.depth = 1 + @]

\* response.json(): the decoded body of the transport's response
json(response) == response.body

from_response(c, response) == from_dict(c, json(response))

(***************************************************************************)
(* The decoded JSON bodies the calls are made on.  A body is any tree of   *)
(* null, strings, numbers, booleans, lists and string-keyed mappings; the  *)
(* shape of a node is NOT tied to the declared type of the field it sits   *)
(* under, so every field meets well-shaped and ill-shaped values.          *)
(***************************************************************************)
MaxKeys == 2

MaxLen == 2

MaxDepth == 3

SText == "x"

SDate == "2023-01-02"

SDateTime == "2023-01-02T03:04:05.000006+00:00"

Classes == {Class(n) : n \in ModuleClasses \cup ProbeClasses}

\* one field of the class for each distinct (declared type, default)
ProbeFields(c) ==
    {i \in 1..Len(fields(c)) :
        \A j \in 1..(i - 1) : fields(c)[j].type # fields(c)[i].type
                                \/ fields(c)[j].default # fields(c)[i].default}

\* nodes without children, for a field whose type (after prune_optional) is T
Leaves(T) ==
    {None, Str(SText), Num(42)}
      \cup (CASE T = datetime -> {Str(SDateTime)}
              [] T = date -> {Str(SDate)}
              [] T.t = "list" -> {Bool(TRUE), List(<<>>), Dict1("k", Num(42))}
              [] T.t = "class" -> {Bool(TRUE), EmptyDict, List(<<Num(42)>>)}
              [] OTHER -> {EmptyDict})

\* elements of a list under a field declared List[U]
Elems(U) ==
    {None, Str(SText), Num(42)}
      \cup (IF U.t = "class"
            THEN {EmptyDict} \cup {Dict1(fields(U)[i].name, Str(SText)) : i \in ProbeFields(U)}
            ELSE {})

SeqsUpTo(S, n) == UNION {[1..m -> S] : m \in 0..n}

RECURSIVE Values(_, _)
\* the raw values tried under a field of (pruned) type T, nesting at most d mappings
Values(T, d) ==
    Leaves(T)
      \cup (IF T.t = "list" THEN {List(xs) : xs \in SeqsUpTo(Elems(T.args[1]), MaxLen)} ELSE {})
      \cup (IF T.t = "class" /\ d > 0
            THEN UNION {{Dict1(fields(T)[i].name, v) :
                            v \in Values(prune_optional(fields(T)[i].type), d - 1)} :
                        i \in ProbeFields(T)}
            ELSE {})

\* mappings with several keys, in declaration order, each null or a string
RECURSIVE Flat(_, _, _)
Flat(c, from, n) ==
    {EmptyDict}
      \cup (IF n = 0 THEN {}
            ELSE UNION {UNION {{[k |-> "map", keys |-> <<fields(c)[i].name>> \o rest.keys,
                                 m |-> [x \in {fields(c)[i].name} \cup DOMAIN rest.m |->
                                          IF x = fields(c)[i].name THEN v ELSE rest.m[x]]] :
                                  v \in {None, Str(SText)}} :
                               rest \in Flat(c, i + 1, n - 1)} :
                        i \in {j \in ProbeFields(c) : j >= from}})

RawInputs(c) == Values(c, MaxDepth) \cup Flat(c, 1, MaxKeys)

Pending == [k |-> "pending"]

(***************************************************************************)
(* The calls: one call of an entry point on one (class, body).             *)
(***************************************************************************)
Init ==
    /\ pc = "ready"
    /\ cls \in Classes
    /\ raw \in RawInputs(cls)
    /\ via = "none"
    /\ result = Pending

FromDict ==
    /\ pc = "ready"
    /\ result' = from_dict(cls, raw)
    /\ via' = "from_dict"
    /\ pc' = "done"
    /\ UNCHANGED <<cls, raw>>

FromResponse ==
    /\ pc = "ready"
    /\ result' = from_response(cls, [body |-> raw])
    /\ via' = "from_response"
    /\ pc' = "done"
    /\ UNCHANGED <<cls, raw>>

Next == FromDict \/ FromResponse

Spec == Init /\ [][Next]_vars

(***************************************************************************)
(* What the properties below talk about                                    *)
(***************************************************************************)
Done == pc = "done"

FieldIdx == 1..Len(fields(cls))

\* the declared type is Optional<T>: a two-arm union whose second arm is NoneType
IsOptional(T) == T.t = "Union" /\ Len(T.args) = 2 /\ T.args[2] = NoneType

\* the declared type without its Optional wrapper
Unwrapped(T) == IF IsOptional(T) THEN T.args[1] ELSE T

HasKey(f) == raw.k = "map" /\ f.name \in DOMAIN raw.m

\* the outcome of field i's conversion, taken alone
Outcome(i) == field_value(fields(cls)[i], raw)

\* field i is the one the build stopped at
Stopped(i) == ~Outcome(i).ok /\ \A j \in 1..(i - 1) : Outcome(j).ok

(***************************************************************************)
(* C1: a field declared Optional<T>, without a default, whose key is       *)
(* absent or holds null never makes from_dict fail: its own conversion     *)
(* gives None, a failing build did not stop at it, and a returned record   *)
(* holds None in the field.                                                *)
(***************************************************************************)
C1_OptionalMissingOrNullIsNone ==
    (Done /\ raw.k = "map") =>
        \A i \in FieldIdx :
            LET f == fields(cls)[i]
            IN (IsOptional(f.type) /\ f.default = MISSING
                  /\ (~HasKey(f) \/ raw.m[f.name] = None))
               => /\ Outcome(i).ok /\ Outcome(i).val = None
                  /\ ~Stopped(i)
                  /\ result.ok => result.val.fields[f.name] = None

C1_Witness ==
    /\ Done /\ cls = Class("Account") /\ raw = Dict1("moved", None)
    /\ result.ok /\ result.val.fields["moved"] = None
    /\ result.val.fields["last_status_at"] = None

(***************************************************************************)
(* C2: a field declared Sequence<T> whose raw value is a list s comes out  *)
(* of a successful build as a list r with Len(r) = Len(s) and              *)
(* r[i] = convert(T, s[i]) for every i.                                    *)
(***************************************************************************)
C2_SequencePreserved ==
    (Done /\ raw.k = "map" /\ result.ok) =>
        \A i \in FieldIdx :
            LET f == fields(cls)[i]
                T == Unwrapped(f.type)
            IN (T.t = "list" /\ HasKey(f) /\ raw.m[f.name].k = "list")
               => LET s == raw.m[f.name].items
                      r == result.val.fields[f.name]
                  IN /\ r.k = "list"
                     /\ Len(r.items) = Len(s)
                     /\ \A n \in 1..Len(s) :
                           /\ convert(T.args[1], s[n]).ok
                           /\ r.items[n] = convert(T.args[1], s[n]).val

C2_Witness ==
    /\ Done /\ cls = Class("Account")
    /\ raw = Dict1("fields", List(<<Dict1("name", Str(SText)), None>>))
    /\ result.ok
    /\ Len(result.val.fields["fields"].items) = 2
    /\ result.val.fields["fields"].items[1].k = "obj"
    /\ result.val.fields["fields"].items[2] = None

(***************************************************************************)
(* C3: for a dataclass whose fields are all primitive (str, int, bool,     *)
(* dict) and any raw mapping, from_dict succeeds and every field whose key *)
(* is in the mapping holds the raw value unchanged, whatever its shape.    *)
(***************************************************************************)
AllPrimitive(c) == \A i \in 1..Len(fields(c)) : fields(c)[i].type \in {str, int, bool, dict}

\* C3: an all-primitive dataclass built from any mapping succeeds and keeps
\* every raw value it was given unchanged.
C3_PrimitivePassThrough ==
    (Done /\ raw.k = "map" /\ AllPrimitive(cls)) =>
        /\ result.ok
        /\ \A i \in FieldIdx :
              HasKey(fields(cls)[i]) => result.val.fields[fields(cls)[i].name] = raw.m[fields(cls)[i].name]

C3_Witness ==
    /\ Done /\ cls = Class("CustomEmoji") /\ raw = Dict1("visible_in_picker", Str(SText))
    /\ result.ok /\ result.val.fields["visible_in_picker"] = Str(SText)

(***************************************************************************)
(* C4: the build is atomic.  Failures(T, v) collects, over the whole tree  *)
(* under a (type, value) pair, the error of every leaf conversion that     *)
(* raises: a temporal parse, a value that cannot be iterated, a value      *)
(* without get() where a record is built, a type without a branch.  If a   *)
(* conversion fails at any depth, the outermost from_dict fails, with one  *)
(* of these errors and with no record; it fails with the error of the      *)
(* first field (in declaration order) whose conversion fails; and a        *)
(* returned record holds every field's own converted value.                *)
(***************************************************************************)
RECURSIVE Failures(_, _)
Failures(T, v) ==
    IF v = None \/ T \in {str, int, bool, dict} THEN {}
    ELSE IF T = datetime THEN (IF strptime(v).ok THEN {} ELSE {strptime(v).err})
    ELSE IF T = date THEN (IF fromisoformat(v).ok THEN {} ELSE {fromisoformat(v).err})
    ELSE IF T.t = "list"
    THEN (IF iter(v).ok
          THEN UNION {Failures(T.args[1], iter(v).val[n]) : n \in 1..Len(iter(v).val)}
          ELSE {iter(v).err})
    ELSE IF T.t = "class"
    THEN (IF v.k = "map"
          THEN UNION {Failures(Unwrapped(fields(T)[i].type),
                               IF fields(T)[i].name \in DOMAIN v.m THEN v.m[fields(T)[i].name]
                               ELSE IF fields(T)[i].default = MISSING THEN None
                               ELSE fields(T)[i].default) : i \in 1..Len(fields(T))}
          ELSE {[exc |-> "AttributeError", why |-> "object has no attribute 'get'", arg |-> v.k]})
    ELSE {[exc |-> "ValueError", why |-> "Not implemented for type", arg |-> TypeName(T)]}

\* the entry point calls get() on the body itself, null included
RootFailures ==
    IF raw = None
    THEN {[exc |-> "AttributeError", why |-> "object has no attribute 'get'", arg |-> raw.k]}
    ELSE Failures(cls, raw)

\* C4: a failure anywhere in the tree fails the outermost from_dict with that
\* error (the first failing field's), and no partly converted record is returned.
C4_BuildIsAtomic ==
    Done =>
        /\ (RootFailures # {}) <=> ~result.ok
        /\ ~result.ok => result.err \in RootFailures
        /\ raw.k = "map" =>
              /\ \A i \in FieldIdx : Stopped(i) => (~result.ok /\ result.err = Outcome(i).err)
              /\ result.ok =>
                    \A i \in FieldIdx :
                        Outcome(i).ok /\ result.val.fields[fields(cls)[i].name] = Outcome(i).val

C4_Witness ==
    /\ Done /\ cls = Class("Status")
    /\ raw = Dict1("account", Dict1("fields", List(<<Dict1("verified_at", Str(SText))>>)))
    /\ ~result.ok
    /\ result.err = [exc |-> "ValueError", why |-> "time data does not match format", arg |-> SText]
    /\ result.depth = 3

(***************************************************************************)
(* C5: a field whose declared type, after optional-unwrapping, has no      *)
(* branch in convert.                                                      *)
(***************************************************************************)
Unsupported(T) == T \notin {str, int, bool, dict, datetime, date} /\ T.t \notin {"list", "class"}

NotImplementedFor(T) ==
    [exc |-> "ValueError", why |-> "Not implemented for type", arg |-> TypeName(T)]

\* the value the field is converted from: the key's value, else the default, else None
Resolved(f) ==
    IF HasKey(f) THEN raw.m[f.name] ELSE IF f.default = MISSING THEN None ELSE f.default

\* C5 as stated: such a field makes the build fail with the unsupported-type
\* error for every raw mapping, whether the key holds a value, holds null or
\* is absent (the build's error is that field's unless an earlier field
\* stopped the build first).
C5_AsStated ==
    (Done /\ raw.k = "map") =>
        \A i \in FieldIdx :
            Unsupported(Unwrapped(fields(cls)[i].type))
            => /\ ~result.ok
               /\ ~Outcome(i).ok
               /\ Stopped(i) => result.err = NotImplementedFor(Unwrapped(fields(cls)[i].type))

\* C5 amended: when the value the field is converted from is not null, the
\* field's conversion raises the unsupported-type error naming the type, the
\* build returns no record, and the build's error is that one unless an
\* earlier field failed first; when it is null (a null value, or an absent key
\* without a non-null default) the field raises nothing and a returned record
\* holds None in it.
C5_UnsupportedFailsUnlessNull ==
    (Done /\ raw.k = "map") =>
        \A i \in FieldIdx :
            LET f == fields(cls)[i]
                T == Unwrapped(f.type)
            IN Unsupported(T) =>
                 IF Resolved(f) # None
                 THEN /\ ~result.ok
                      /\ Outcome(i) = Raise("ValueError", "Not implemented for type", TypeName(T), 0)
                      /\ Stopped(i) => result.err = NotImplementedFor(T)
                 ELSE /\ Outcome(i).ok
                      /\ result.ok => result.val.fields[f.name] = None

C5_Witness ==
    /\ Done /\ cls = Class("Probe") /\ raw = Dict1("either", Str(SText))
    /\ ~result.ok
    /\ result.err = [exc |-> "ValueError", why |-> "Not implemented for type",
                     arg |-> "typing.Union[str, int, NoneType]"]

(***************************************************************************)
(* C6: a non-null raw value whose shape does not match the container its   *)
(* declared type requires makes the build fail: a Sequence<T> field given  *)
(* a non-list, a nested-record field given a non-mapping.                  *)
(***************************************************************************)
\* C6: a Sequence<T> field given a non-null non-list, or a nested-record field
\* given a non-null non-mapping, makes the build fail.
C6_ShapeMismatchFails ==
    (Done /\ raw.k = "map") =>
        \A i \in FieldIdx :
            LET f == fields(cls)[i]
                T == Unwrapped(f.type)
            IN /\ (T.t = "list" /\ Resolved(f) # None /\ Resolved(f).k # "list") => ~result.ok
               /\ (T.t = "class" /\ Resolved(f) # None /\ Resolved(f).k # "map") => ~result.ok

(***************************************************************************)
(* C7: every record from_dict returns matches its schema: each field holds *)
(* a value of the shape its declared type names, and holds None only if it *)
(* is declared Optional or its declared default is None.                   *)
(***************************************************************************)
RECURSIVE Conforms(_, _)
Conforms(T, v) ==
    CASE T = str -> v.k = "str"
      [] T = int -> v.k = "int"
      [] T = bool -> v.k = "bool"
      [] T = dict -> v.k = "map"
      [] T = datetime -> v.k = "datetime"
      [] T = date -> v.k = "date"
      [] T.t = "list" -> v.k = "list" /\ \A n \in 1..Len(v.items) : Conforms(T.args[1], v.items[n])
      [] T.t = "class" ->
            /\ v.k = "obj" /\ v.cls = T.n
            /\ \A i \in 1..Len(fields(T)) :
                  LET f == fields(T)[i]
                  IN IF v.fields[f.name] = None
                     THEN IsOptional(f.type) \/ f.default = None
                     ELSE Conforms(Unwrapped(f.type), v.fields[f.name])
      [] OTHER -> FALSE

\* C7: a returned record conforms to its schema at every depth.
C7_OutputMatchesSchema == (Done /\ result.ok) => Conforms(cls, result.val)

(***************************************************************************)
(* C8: for a field whose key is absent from the raw mapping the builder    *)
(* converts the declared default if there is one and None otherwise: a     *)
(* field without a default, Optional or not, raises nothing and comes out  *)
(* as None, and a field with a default comes out as the converted default  *)
(* (False for Status.favourited).                                          *)
(***************************************************************************)
C8_MissingKeyTakesDefault ==
    (Done /\ raw.k = "map") =>
        \A i \in FieldIdx :
            LET f == fields(cls)[i]
                d == IF f.default = MISSING THEN None ELSE f.default
            IN ~HasKey(f) =>
                 /\ Outcome(i) = convert(Unwrapped(f.type), d)
                 /\ f.default = MISSING => (Outcome(i).ok /\ Outcome(i).val = None)
                 /\ (f.default = Bool(FALSE) /\ f.type = bool) => Outcome(i).val = Bool(FALSE)
                 /\ result.ok => result.val.fields[f.name] = Outcome(i).val
                 /\ (~result.ok /\ f.default = MISSING) => ~Stopped(i)

C8_Witness ==
    /\ Done /\ cls = Class("Status") /\ raw = Dict1("url", Str(SText))
    /\ result.ok
    /\ result.val.fields["id"] = None
    /\ result.val.fields["account"] = None
    /\ result.val.fields["favourited"] = Bool(FALSE)

(***************************************************************************)
(* C9: termination and the depth of the recursion.                         *)
(***************************************************************************)
RECURSIVE ClassesIn(_)
\* the dataclasses a declared type mentions
ClassesIn(T) ==
    IF T.t = "class" THEN {T} ELSE UNION {ClassesIn(T.args[i]) : i \in 1..Len(T.args)}

NestedIn(c) == UNION {ClassesIn(fields(c)[i].type) : i \in 1..Len(fields(c))}

RECURSIVE NestingDepth(_, _)
\* the schema's nesting depth: the longest chain of distinct dataclasses, each
\* declared as a field (or element) type of the one before, starting at c
NestingDepth(c, seen) ==
    1 + MaxOf({NestingDepth(d, seen \cup {d}) : d \in NestedIn(c) \ seen})

RECURSIVE Height(_)
\* the nesting depth of a raw tree: 1 for a childless node
Height(v) ==
    CASE v.k = "list" -> 1 + MaxOf({Height(v.items[n]) : n \in 1..Len(v.items)})
      [] v.k = "map" -> 1 + MaxOf({Height(v.m[key]) : key \in DOMAIN v.m})
      [] OTHER -> 1

C10_NullIsNotDefaulted ==
    (Done /\ raw.k = "map") =>
        \A i \in FieldIdx :
            LET f == fields(cls)[i]
            IN (f.default \notin {MISSING, None} /\ HasKey(f) /\ raw.m[f.name] = None)
               => /\ Outcome(i).ok /\ Outcome(i).val = None
                  /\ ~result.ok => ~Stopped(i)
                  /\ result.ok => (result.val.fields[f.name] = None
                                    /\ result.val.fields[f.name] # f.default)

C10_Witness ==
    /\ Done /\ cls = Class("Status") /\ raw = Dict1("favourited", None)
    /\ result.ok
    /\ result.val.fields["favourited"] = None
    /\ result.val.fields["reblogged"] = Bool(FALSE)
====
